---- MODULE Spec2Model ----
(***************************************************************************)
(* Report aggregation and caching core of trivy-glass.                     *)
(*                                                                         *)
(* Primary implementation (Redis-backed): listAllAquaSecurityCRDs,         *)
(* loadReports, invalidateCache, with the helpers extractValue and         *)
(* getColumnDefinitions.  Simplified implementation (in-process map):      *)
(* loadReports with a timestamp checked at read time.                      *)
(*                                                                         *)
(* Every handler is an async function; it is modelled as a call record     *)
(* whose pc names the await it is suspended at.  One action is the         *)
(* resolution of one await together with the synchronous code that runs    *)
(* up to the next await (or to the return / throw).                        *)
(***************************************************************************)
EXTENDS Integers, Sequences, FiniteSets, TLC

(***************************************************************************)
(* Bounds of the model.                                                    *)
(***************************************************************************)
MaxCalls == 3        \* handler invocations started in one behaviour
MaxTime == 1800      \* the clock (seconds) stops advancing here
TickStep == 900      \* seconds the clock advances in one Tick
MaxCRDs == 2         \* length of a CRD listing returned by the cluster API
SimpleMaxTime == 450 \* where the clock stops for the simplified implementation
SimpleTickStep == 150 \* seconds the clock advances in one SimpleTick

Callers == {"h1", "h2"}                 \* concurrently running handlers
Plurals == {"vulnerabilityreports", "configauditreports"}

(***************************************************************************)
(* JavaScript values.  Every value is a tagged record so that values of    *)
(* different JS types can be compared.                                     *)
(***************************************************************************)
Undefined == [t |-> "undefined"]
Null == [t |-> "null"]
Str(s) == [t |-> "string", v |-> s]
Obj(f) == [t |-> "object", f |-> f]
Function(name) == [t |-> "function", v |-> name]
NoProps == [k \in {} |-> Undefined]     \* the property map of {}
EmptyObj == Obj(NoProps)

\* JS truthiness of a value (objects and functions true, "" / null /
\* undefined false)
Truthy(val) ==
  \/ val.t \in {"object", "function"}
  \/ val.t = "string" /\ val.v # ""

\* val has the own property part
HasProp(val, part) == val.t = "object" /\ part \in DOMAIN val.f

\* what every object inherits from Object.prototype
ObjectPrototype ==
  [constructor |-> Function("Object"), toString |-> Function("toString")]

\* `part in value`: own and inherited properties
In(part, val) == HasProp(val, part) \/ part \in DOMAIN ObjectPrototype

\* value[part]
Get(val, part) == IF HasProp(val, part) THEN val.f[part] ELSE ObjectPrototype[part]

\* obj[k] = v on a property map
SetProp(f, k, v) == [j \in (DOMAIN f) \cup {k} |-> IF j = k THEN v ELSE f[j]]

(***************************************************************************)
(* JSON paths.  A path is the result of jsonPath.split('.'), e.g.          *)
(* ".metadata.name" is <<"", "metadata", "name">>; the empty string is     *)
(* <<"">>, and a missing jsonPath (undefined) is << >>.                    *)
(***************************************************************************)
PathName == <<"", "metadata", "name">>
PathCreation == <<"", "metadata", "creationTimestamp">>
PathCritical == <<"", "report", "summary", "criticalCount">>
PathUpdate == <<"", "report", "updateTimestamp">>

\* !jsonPath
FalsyPath(jsonPath) == jsonPath = << >> \/ jsonPath = <<"">>
\* jsonPath.endsWith('Timestamp')
EndsWithTimestamp(jsonPath) ==
  /\ jsonPath # << >>
  /\ jsonPath[Len(jsonPath)] \in {"creationTimestamp", "updateTimestamp", "Timestamp"}
\* jsonPath.includes('creation')
IncludesCreation(jsonPath) ==
  \E i \in 1..Len(jsonPath) : jsonPath[i] \in {"creationTimestamp", "creation"}

\* new Date(value).toLocaleString(): a parseable date string is formatted,
\* anything else gives the string "Invalid Date"
ToLocaleString(val) ==
  IF val.t = "string" /\ val.v = "2024-05-01T10:00:00Z"
    THEN Str("5/1/2024, 10:00:00 AM")
    ELSE Str("Invalid Date")

\* a || b
OrElse(a, b) == IF Truthy(a) THEN a ELSE b

\* the for loop of extractValue
RECURSIVE Walk(_, _)
Walk(val, parts) ==
  IF parts = << >> THEN val
  ELSE IF Truthy(val) /\ val.t = "object" /\ In(Head(parts), val)
    THEN Walk(Get(val, Head(parts)), Tail(parts))
    ELSE Undefined

extractValue(obj, jsonPath) ==
  IF ~Truthy(obj) \/ FalsyPath(jsonPath) THEN Undefined
  ELSE LET val == Walk(obj, Tail(jsonPath))
       IN IF Truthy(val) /\ (EndsWithTimestamp(jsonPath) \/ IncludesCreation(jsonPath))
            THEN OrElse(ToLocaleString(val), val)
            ELSE val

(***************************************************************************)
(* Column definitions.                                                     *)
(***************************************************************************)
\* the object literal of getColumnDefinitions: all five keys, undefined kept
ColumnOf(col) ==
  [name |-> col.name, description |-> col.description, jsonPath |-> col.jsonPath,
   type |-> col.type, priority |-> col.priority]

RECURSIVE MapColumns(_)
MapColumns(cols) ==
  IF cols = << >> THEN << >> ELSE <<ColumnOf(Head(cols))>> \o MapColumns(Tail(cols))

\* versionInfo is [found, hasColumns, additionalPrinterColumns]; found = FALSE
\* is the undefined that versions.find gives when no entry matches
getColumnDefinitions(versionInfo) ==
  IF ~versionInfo.found THEN << >>
  ELSE IF versionInfo.hasColumns THEN MapColumns(versionInfo.additionalPrinterColumns)
  ELSE << >>

DefaultColumns ==
  << [name |-> "Name", jsonPath |-> PathName, type |-> "string"],
     [name |-> "Age", jsonPath |-> PathCreation, type |-> "date"] >>

\* crdSpec.versions.find((v) => v.name === 'v1alpha1')
RECURSIVE FindVersion(_)
FindVersion(versions) ==
  IF versions = << >>
    THEN [found |-> FALSE, hasColumns |-> FALSE, additionalPrinterColumns |-> << >>]
  ELSE IF Head(versions).name = "v1alpha1"
    THEN [found |-> TRUE, hasColumns |-> Head(versions).hasColumns,
          additionalPrinterColumns |-> Head(versions).additionalPrinterColumns]
  ELSE FindVersion(Tail(versions))

(***************************************************************************)
(* What the cluster API can answer: printer columns, CRD objects and      *)
(* report instances.                                                       *)
(***************************************************************************)
ColCritical ==
  [name |-> "Critical", description |-> Str("critical findings"),
   jsonPath |-> PathCritical, type |-> "integer", priority |-> Str("1")]
ColUpdated ==
  [name |-> "Updated", description |-> Undefined,
   jsonPath |-> PathUpdate, type |-> "date", priority |-> Undefined]

Version(name, hasColumns, cols) ==
  [name |-> name, hasColumns |-> hasColumns, additionalPrinterColumns |-> cols]

CRD(hasSpec, group, scope, plural, hasVersions, versions) ==
  [hasSpec |-> hasSpec, group |-> group, scope |-> scope, plural |-> plural,
   hasVersions |-> hasVersions, versions |-> versions]

AquaGroup == "aquasecurity.github.io"

CrdClusterCols ==
  CRD(TRUE, AquaGroup, Str("Cluster"), "configauditreports", TRUE,
      <<Version("v1beta1", FALSE, << >>), Version("v1alpha1", TRUE, <<ColCritical, ColUpdated>>)>>)
CrdNamespaced ==
  CRD(TRUE, AquaGroup, Str("Namespaced"), "vulnerabilityreports", TRUE,
      <<Version("v1alpha1", FALSE, << >>)>>)
CrdOtherGroup ==
  CRD(TRUE, "cert-manager.io", Str("Cluster"), "configauditreports", TRUE,
      <<Version("v1alpha1", TRUE, <<ColCritical>>)>>)
CrdNoAlpha ==
  CRD(TRUE, AquaGroup, Str("Cluster"), "vulnerabilityreports", TRUE,
      <<Version("v1beta1", TRUE, <<ColCritical>>)>>)
CrdNoSpec ==
  CRD(FALSE, AquaGroup, Undefined, "configauditreports", FALSE, << >>)
CrdNoScope ==
  CRD(TRUE, AquaGroup, Undefined, "vulnerabilityreports", TRUE,
      <<Version("v1alpha1", TRUE, << >>)>>)
CrdNoVersions ==
  CRD(TRUE, AquaGroup, Str("Cluster"), "configauditreports", FALSE, << >>)

CRDObjects ==
  {CrdClusterCols, CrdNamespaced, CrdOtherGroup, CrdNoAlpha, CrdNoSpec, CrdNoScope,
   CrdNoVersions}

ItemFull ==
  Obj([metadata |-> Obj([name |-> Str("report-a"),
                         creationTimestamp |-> Str("2024-05-01T10:00:00Z")]),
       report |-> Obj([summary |-> Obj([criticalCount |-> Str("3")]),
                       updateTimestamp |-> Str("n/a")])])
ItemBare == Obj([report |-> Obj([summary |-> Null])])

ItemLists == {<< >>, <<ItemFull, ItemBare>>}

(***************************************************************************)
(* The Redis store and the JSON text it holds.                             *)
(***************************************************************************)
CACHE_DURATION == 1800

CrdsKey == "aqua_security_crds"
ReportsKey(crdPlural) == "reports:" \o crdPlural
Keys == {CrdsKey} \cup {ReportsKey(p) : p \in Plurals}

\* JSON.stringify of a value of a record: properties whose value is undefined
\* or a function are left out, nested objects likewise
RECURSIVE JsonValue(_)
JsonValue(val) ==
  IF val.t = "object"
    THEN Obj([k \in {j \in DOMAIN val.f : val.f[j].t \notin {"undefined", "function"}} |->
                JsonValue(val.f[k])])
    ELSE val

RECURSIVE JsonValues(_)
JsonValues(vals) ==
  IF vals = << >> THEN << >> ELSE <<JsonValue(Head(vals))>> \o JsonValues(Tail(vals))

\* JSON.stringify(data) for a ReportsData; the text is kept as its JSON tree
StringifyReports(data) ==
  [json |-> [k \in DOMAIN data |->
               IF k = "manifests" THEN JsonValues(data.manifests) ELSE data[k]]]

\* JSON.stringify of one ColumnDefinition / one CRDMetadata: the keys whose
\* value is undefined (description, priority, scope) are left out
JsonColumn(col) ==
  [k \in {j \in DOMAIN col : ~(j \in {"description", "priority"} /\ col[j] = Undefined)} |->
     col[k]]

RECURSIVE JsonColumns(_)
JsonColumns(cols) ==
  IF cols = << >> THEN << >> ELSE <<JsonColumn(Head(cols))>> \o JsonColumns(Tail(cols))

JsonCrd(crd) ==
  [k \in {j \in DOMAIN crd : ~(j = "scope" /\ crd[j] = Undefined)} |->
     IF k = "columns" THEN JsonColumns(crd.columns) ELSE crd[k]]

RECURSIVE JsonCrds(_)
JsonCrds(crds) ==
  IF crds = << >> THEN << >> ELSE <<JsonCrd(Head(crds))>> \o JsonCrds(Tail(crds))

\* JSON.stringify(crds) for a CRDMetadata[]
StringifyCrds(crds) == [json |-> JsonCrds(crds)]

\* JSON.parse(cachedData)
Parse(text) == text.json

NoEntry == [present |-> FALSE]
\* SETEX key seconds value, issued at time t
Entry(text, seconds, t) == [present |-> TRUE, text |-> text, exp |-> t + seconds, at |-> t]

VARIABLES
  impl,          \* which implementation the process runs: "redis" or "memory"
  kubeConfig,    \* the kubeconfig loaded at module load
  process,       \* the Node process: "running" or "exited"
  clusterName,   \* name of the current cluster of the kubeconfig, resolved at load
  redis,         \* the Redis store: key -> entry
  cache,         \* the in-process cache of the simplified implementation
  now,           \* wall clock, seconds
  calls,         \* the handler invocation each caller has in flight
  last,          \* the invocation that returned or threw in the step just taken
  ncalls,        \* invocations started so far
  warm,          \* history: plural -> a loadReports returned and its entry was not removed since
  invalidated    \* history: plural -> what the last DEL found, until the key is written again

vars == <<impl, kubeConfig, process, clusterName, redis, cache, now, calls, last, ncalls, warm, invalidated>>

\* what no call of the services changes: the configuration fixed at load time
\* and the life of the process
config == <<impl, kubeConfig, process, clusterName>>

redisGet(key) == redis[key]
redisSetEx(key, seconds, text) == [redis EXCEPT ![key] = Entry(text, seconds, now)]
redisDel(key) == [redis EXCEPT ![key] = NoEntry]

(***************************************************************************)
(* Handler invocations.  A call record holds the handler's name and        *)
(* argument, the await it is suspended at (pc), its locals (loc), the      *)
(* number of cluster-API requests it has issued (api) and which cache      *)
(* operation of it was rejected (fault).                                   *)
(***************************************************************************)
NoRet == [kind |-> "none"]
Returned(val, from) == [kind |-> "value", val |-> val, from |-> from]
Thrown(message) == [kind |-> "throw", error |-> message]

Idle == [op |-> "none", p |-> "", pc |-> "idle", api |-> 0, fault |-> "none",
         loc |-> [k \in {} |-> 0], ret |-> NoRet]
CanStart(c) == calls[c].pc = "idle" /\ ncalls < MaxCalls
RedisImpl == impl = "redis"
MemoryImpl == impl = "memory"

RedisError == "The client is closed"

\* kubeConfig.getCurrentCluster()?.name || 'Unknown Cluster'; currentName is
\* undefined when there is no current cluster or it has no name
ResolveClusterName(currentName) ==
  IF Truthy(currentName) THEN currentName.v ELSE "Unknown Cluster"

InitWith(currentNames) ==
  /\ impl \in {"redis", "memory"}
  /\ kubeConfig \in {[currentCluster |-> n] : n \in currentNames}
  /\ process = "running"
  /\ clusterName = ResolveClusterName(kubeConfig.currentCluster)
  /\ redis = [k \in Keys |-> NoEntry]
  /\ cache = [p \in Plurals |-> NoEntry]
  /\ now = 0
  /\ calls = [c \in Callers |-> Idle]
  /\ last = Idle
  /\ ncalls = 0
  /\ warm = [p \in Plurals |-> FALSE]
  /\ invalidated = [p \in Plurals |-> "no"]

Init == InitWith({Str("kind-trivy")})

\* caller c moves to the await pc with locals loc
Goto(c, pc, loc) == [calls EXCEPT ![c].pc = pc, ![c].loc = loc]
\* the record of a call that ends with ret
Ended(call, ret) == [call EXCEPT !.pc = IF ret.kind = "throw" THEN "threw" ELSE "done",
                                 !.ret = ret]
\* several locals assigned at once
Assign(loc, new) ==
  [k \in (DOMAIN loc) \cup (DOMAIN new) |-> IF k \in DOMAIN new THEN new[k] ELSE loc[k]]

(***************************************************************************)
(* loadReports(crdPlural)                                                  *)
(***************************************************************************)
\* item.metadata
MetadataOf(item) == IF HasProp(item, "metadata") THEN item.f.metadata ELSE Undefined

\* columns.forEach((col) => { reportData[col.name] = value !== undefined ? value : null })
RECURSIVE ForEachColumn(_, _, _)
ForEachColumn(reportData, item, columns) ==
  IF columns = << >> THEN reportData
  ELSE LET col == Head(columns)
           val == extractValue(item, col.jsonPath)
       IN ForEachColumn(SetProp(reportData, col.name, IF val # Undefined THEN val ELSE Null),
                        item, Tail(columns))

\* items.map((item) => reportData)
RECURSIVE FilteredReports(_, _)
FilteredReports(items, columns) ==
  IF items = << >> THEN << >>
  ELSE <<Obj(ForEachColumn([metadata |-> OrElse(MetadataOf(Head(items)), EmptyObj)],
                           Head(items), columns))>>
       \o FilteredReports(Tail(items), columns)

\* the payload of the catch block
ErrorData(crdPlural, message) ==
  [manifests |-> << >>, clusterName |-> "Unknown Cluster", scope |-> "Unknown",
   error |-> message, resource |-> crdPlural]

\* Variant of ReportsData that does not use the resolved cluster name.
ReportsDataUnnamed(filteredReports, scope, crdPlural) ==
  [manifests |-> filteredReports, clusterName |-> "Unknown Cluster", scope |-> scope,
   resource |-> crdPlural]

\* the payload of the try block
ReportsData(filteredReports, scope, crdPlural) ==
  [manifests |-> filteredReports, clusterName |-> clusterName, scope |-> scope,
   resource |-> crdPlural]

\* Variant of ColumnsFor without the two default columns.
ColumnsForNoDefault(versionInfo) == getColumnDefinitions(versionInfo)

\* columns = getColumnDefinitions(versionInfo), or the two defaults when empty
ColumnsFor(versionInfo) ==
  LET columns == getColumnDefinitions(versionInfo)
  IN IF Len(columns) = 0 THEN DefaultColumns ELSE columns

\* Variant of ScopeOf whose default is 'Unknown'.
ScopeOfUnknownDefault(crdSpec) ==
  IF Truthy(crdSpec.scope) THEN crdSpec.scope.v ELSE "Unknown"

\* const scope = crdSpec.scope || 'Cluster'
ScopeOf(crdSpec) == IF Truthy(crdSpec.scope) THEN crdSpec.scope.v ELSE "Cluster"

\* Variant of Catch whose payload keeps the manifests projected so far.
CatchKeepsManifests(c, message, loc) ==
  Goto(c, "catchSetEx",
       SetProp(loc, "errData",
               [ErrorData(calls[c].p, message) EXCEPT
                  !.manifests = IF "data" \in DOMAIN loc THEN loc.data.manifests ELSE << >>]))

\* Variant of ListCallFor that always lists cluster-wide.
ListCallForCluster(scope) == "listClusterCustomObject"

\* if (scope === 'Namespaced') ... else ...: the listing call that is issued
ListCallFor(scope) ==
  IF scope = "Namespaced" THEN "listCustomObjectForAllNamespaces"
  ELSE "listClusterCustomObject"

\* entering the catch block: the error payload is built and its SETEX issued
Catch(c, message, loc) ==
  Goto(c, "catchSetEx", SetProp(loc, "errData", ErrorData(calls[c].p, message)))

\* Call, and the reply of `await redisClient.get(cacheKey)`: a failing GET
\* rejects the call; a hit returns the parsed text; a miss issues the CRD lookup.
LoadReportsGet(c, crdPlural, ok) ==
  /\ RedisImpl /\ CanStart(c)
  /\ ncalls' = ncalls + 1
  /\ LET cachedData == redisGet(ReportsKey(crdPlural))
         start == [Idle EXCEPT !.op = "loadReports", !.p = crdPlural,
                     !.loc = [warmAtGet |-> warm[crdPlural],
                              afterDel |-> invalidated[crdPlural]]]
     IN IF ~ok
          THEN /\ last' = Ended([start EXCEPT !.fault = "get"], Thrown(RedisError))
               /\ UNCHANGED <<calls, warm>>
        ELSE IF cachedData.present
          THEN /\ last' = Ended([start EXCEPT !.loc = SetProp(start.loc, "writtenAt", cachedData.at)],
                                Returned(Parse(cachedData.text), "cache"))
               /\ warm' = [warm EXCEPT ![crdPlural] = TRUE]
               /\ UNCHANGED calls
        ELSE /\ calls' = [calls EXCEPT ![c] = [start EXCEPT !.pc = "getCRD", !.api = 1]]
             /\ last' = Idle
             /\ UNCHANGED warm
  /\ UNCHANGED <<config, redis, cache, now, invalidated>>

\* what getClusterCustomObject can answer for the CRD named <plural>.<group>
CrdResponses(crdPlural) ==
  {[ok |-> FALSE, message |-> "HTTP request failed: 404 not found"]}
  \cup {[ok |-> TRUE, body |-> crd] : crd \in {k \in CRDObjects : k.plural = crdPlural}}

\* The reply of getClusterCustomObject: schema resolution, then the instance
\* listing is issued (the call kind is decided by the scope).
LoadReportsCrdResponse(c, resp) ==
  /\ calls[c].op = "loadReports" /\ calls[c].pc = "getCRD"
  /\ LET crdName == calls[c].p \o "." \o AquaGroup
         loc == calls[c].loc
     IN IF ~resp.ok
          THEN calls' = Catch(c, resp.message, SetProp(loc, "crdOutcome", "rejected"))
        ELSE IF ~resp.body.hasSpec
          THEN calls' = Catch(c, "CRD " \o crdName \o " did not return a valid spec",
                              SetProp(loc, "crdOutcome", "noSpec"))
        ELSE IF ~resp.body.hasVersions
          THEN calls' = Catch(c, "Cannot read properties of undefined (reading 'find')",
                              SetProp(loc, "crdOutcome", "noVersions"))
        ELSE IF ~FindVersion(resp.body.versions).found
          THEN calls' = Catch(c, "No v1alpha1 version found for " \o crdName,
                              SetProp(loc, "crdOutcome", "noAlpha"))
        ELSE LET columns == ColumnsFor(FindVersion(resp.body.versions))
                 scope == ScopeOf(resp.body)
                 listCall == ListCallFor(scope)
             IN calls' = [calls EXCEPT ![c].pc = "list", ![c].api = 2,
                            ![c].loc = Assign(loc, [crdOutcome |-> "ok", crd |-> resp.body,
                                                    columns |-> columns, scope |-> scope,
                                                    listCall |-> listCall])]
  /\ last' = Idle
  /\ UNCHANGED <<config, redis, cache, now, ncalls, warm, invalidated>>

\* what the instance listing can answer
ListResponses == {[ok |-> FALSE]} \cup {[ok |-> TRUE, items |-> items] : items \in ItemLists}

\* Variant of LoadReportsListResponse without the local try/catch around the
\* listing: a rejected listing reaches the catch block of the function.
LoadReportsListResponseUncaught(c, resp) ==
  /\ calls[c].op = "loadReports" /\ calls[c].pc = "list"
  /\ LET loc == calls[c].loc
         items == IF resp.ok THEN resp.items ELSE << >>
         data == ReportsData(FilteredReports(items, loc.columns), loc.scope, calls[c].p)
         loc1 == Assign(loc, [listOutcome |-> IF resp.ok THEN "ok" ELSE "rejected",
                              items |-> items, data |-> data])
     IN IF resp.ok
          THEN calls' = Goto(c, "setEx", loc1)
          ELSE calls' = Catch(c, "HTTP request failed", loc1)
  /\ last' = Idle
  /\ UNCHANGED <<config, redis, cache, now, ncalls, warm, invalidated>>

\* The reply of the instance listing: a rejected listing is an empty list; the
\* instances are projected, the payload is built and its SETEX issued.
LoadReportsListResponse(c, resp) ==
  /\ calls[c].op = "loadReports" /\ calls[c].pc = "list"
  /\ LET loc == calls[c].loc
         items == IF resp.ok THEN resp.items ELSE << >>
         data == ReportsData(FilteredReports(items, loc.columns), loc.scope, calls[c].p)
     IN calls' = Goto(c, "setEx",
                      Assign(loc, [listOutcome |-> IF resp.ok THEN "ok" ELSE "rejected",
                                   items |-> items, data |-> data]))
  /\ last' = Idle
  /\ UNCHANGED <<config, redis, cache, now, ncalls, warm, invalidated>>

\* Variant of LoadReportsSetEx that returns the payload without storing it.
LoadReportsSetExUnstored(c, ok) ==
  /\ calls[c].op = "loadReports" /\ calls[c].pc = "setEx"
  /\ LET crdPlural == calls[c].p
         data == calls[c].loc.data
     IN IF ok
          THEN /\ last' = Ended(calls[c], Returned(data, "api"))
               /\ calls' = [calls EXCEPT ![c] = Idle]
               /\ warm' = [warm EXCEPT ![crdPlural] = TRUE]
               /\ UNCHANGED <<redis, invalidated>>
          ELSE /\ calls' = [Catch(c, RedisError, calls[c].loc) EXCEPT ![c].fault = "setEx"]
               /\ last' = Idle
               /\ UNCHANGED <<redis, warm, invalidated>>
  /\ UNCHANGED <<config, cache, now, ncalls>>

\* Variant of LoadReportsSetEx that stores the payload only if the key holds
\* nothing (SET NX).
LoadReportsSetExIfAbsent(c, ok) ==
  /\ calls[c].op = "loadReports" /\ calls[c].pc = "setEx"
  /\ LET crdPlural == calls[c].p
         data == calls[c].loc.data
         before == redis[ReportsKey(crdPlural)]
     IN IF ok
          THEN /\ redis' = IF before.present THEN redis
                           ELSE redisSetEx(ReportsKey(crdPlural), CACHE_DURATION,
                                           StringifyReports(data))
               /\ last' = Ended([calls[c] EXCEPT !.loc = SetProp(calls[c].loc, "before", before)],
                                Returned(data, "api"))
               /\ calls' = [calls EXCEPT ![c] = Idle]
               /\ warm' = [warm EXCEPT ![crdPlural] = TRUE]
               /\ invalidated' = [invalidated EXCEPT ![crdPlural] = "no"]
          ELSE /\ calls' = [Catch(c, RedisError, calls[c].loc) EXCEPT ![c].fault = "setEx"]
               /\ last' = Idle
               /\ UNCHANGED <<redis, warm, invalidated>>
  /\ UNCHANGED <<config, cache, now, ncalls>>

\* The reply of `await redisClient.setEx(...)` in the try block: the payload
\* is stored and returned, or the rejection is caught by the catch block.
\* (loc.before keeps the entry the write replaced.)
LoadReportsSetEx(c, ok) ==
  /\ calls[c].op = "loadReports" /\ calls[c].pc = "setEx"
  /\ LET crdPlural == calls[c].p
         data == calls[c].loc.data
         before == redis[ReportsKey(crdPlural)]
     IN IF ok
          THEN /\ redis' = redisSetEx(ReportsKey(crdPlural), CACHE_DURATION, StringifyReports(data))
               /\ last' = Ended([calls[c] EXCEPT !.loc = SetProp(calls[c].loc, "before", before)],
                                Returned(data, "api"))
               /\ calls' = [calls EXCEPT ![c] = Idle]
               /\ warm' = [warm EXCEPT ![crdPlural] = TRUE]
               /\ invalidated' = [invalidated EXCEPT ![crdPlural] = "no"]
          ELSE /\ calls' = [Catch(c, RedisError, calls[c].loc) EXCEPT ![c].fault = "setEx"]
               /\ last' = Idle
               /\ UNCHANGED <<redis, warm, invalidated>>
  /\ UNCHANGED <<config, cache, now, ncalls>>

\* Variant of LoadReportsCatchSetEx that returns the error payload without
\* storing it (no negative caching).
LoadReportsCatchUnstored(c, ok) ==
  /\ calls[c].op = "loadReports" /\ calls[c].pc = "catchSetEx"
  /\ last' = Ended(calls[c], Returned(calls[c].loc.errData, "api"))
  /\ warm' = [warm EXCEPT ![calls[c].p] = TRUE]
  /\ calls' = [calls EXCEPT ![c] = Idle]
  /\ UNCHANGED <<config, redis, cache, now, ncalls, invalidated>>

\* The reply of `await redisClient.setEx(...)` in the catch block: the error
\* payload is stored and returned, or the rejection leaves the function.
LoadReportsCatchSetEx(c, ok) ==
  /\ calls[c].op = "loadReports" /\ calls[c].pc = "catchSetEx"
  /\ LET crdPlural == calls[c].p
         data == calls[c].loc.errData
         before == redis[ReportsKey(crdPlural)]
     IN IF ok
          THEN /\ redis' = redisSetEx(ReportsKey(crdPlural), CACHE_DURATION, StringifyReports(data))
               /\ last' = Ended([calls[c] EXCEPT !.loc = SetProp(calls[c].loc, "before", before)],
                                Returned(data, "api"))
               /\ warm' = [warm EXCEPT ![crdPlural] = TRUE]
               /\ invalidated' = [invalidated EXCEPT ![crdPlural] = "no"]
          ELSE /\ last' = Ended([calls[c] EXCEPT !.fault = "catchSetEx"], Thrown(RedisError))
               /\ UNCHANGED <<redis, warm, invalidated>>
  /\ calls' = [calls EXCEPT ![c] = Idle]
  /\ UNCHANGED <<config, cache, now, ncalls>>

(***************************************************************************)
(* listAllAquaSecurityCRDs()                                               *)
(***************************************************************************)
\* Variant of the filter predicate that does not look at the scope.
IsAquaCrd(crd) == crd.group = AquaGroup

\* the predicate of items.filter(...)
IsClusterAquaCrd(crd) == crd.group = AquaGroup /\ crd.scope # Str("Namespaced")

RECURSIVE FilterCrds(_)
FilterCrds(items) ==
  IF items = << >> THEN << >>
  ELSE (IF IsClusterAquaCrd(Head(items)) THEN <<Head(items)>> ELSE << >>)
       \o FilterCrds(Tail(items))

\* the callback of .map(...)
CrdMetadata(crd) ==
  [group |-> AquaGroup, plural |-> crd.plural,
   columns |-> getColumnDefinitions(FindVersion(crd.versions)), scope |-> crd.scope]

RECURSIVE MapCrds(_)
MapCrds(kept) ==
  IF kept = << >> THEN << >> ELSE <<CrdMetadata(Head(kept))>> \o MapCrds(Tail(kept))

\* crd.spec.group of a CRD without spec throws in the filter;
\* crd.spec.versions.find of a kept CRD without versions throws in the map
ProcessingThrows(items) ==
  \/ \E i \in 1..Len(items) : ~items[i].hasSpec
  \/ \E i \in 1..Len(FilterCrds(items)) : ~FilterCrds(items)[i].hasVersions

\* Call, and the reply of `await redisClient.get(cacheKey)`.
ListCrdsGet(c, ok) ==
  /\ RedisImpl /\ CanStart(c)
  /\ ncalls' = ncalls + 1
  /\ LET cachedData == redisGet(CrdsKey)
         start == [Idle EXCEPT !.op = "listAllAquaSecurityCRDs"]
     IN IF ~ok
          THEN /\ last' = Ended([start EXCEPT !.fault = "get"], Thrown(RedisError))
               /\ UNCHANGED calls
        ELSE IF cachedData.present
          THEN /\ last' = Ended([start EXCEPT !.loc = [writtenAt |-> cachedData.at]],
                                Returned(Parse(cachedData.text), "cache"))
               /\ UNCHANGED calls
        ELSE /\ calls' = [calls EXCEPT ![c] = [start EXCEPT !.pc = "listCRDs", !.api = 1]]
             /\ last' = Idle
  /\ UNCHANGED <<config, redis, cache, now, warm, invalidated>>

\* Variant of ListCrdsResponse whose catch block stores the empty list.
ListCrdsResponseStoresEmpty(c, resp) ==
  /\ calls[c].op = "listAllAquaSecurityCRDs" /\ calls[c].pc = "listCRDs"
  /\ LET items == IF resp.ok /\ resp.hasItems THEN resp.items ELSE << >>
         loc == [listOutcome |-> IF resp.ok THEN "ok" ELSE "rejected", items |-> items,
                 before |-> redis[CrdsKey]]
     IN IF ~resp.ok \/ ProcessingThrows(items)
          THEN /\ last' = Ended([calls[c] EXCEPT !.loc = loc], Returned(<< >>, "api"))
               /\ calls' = [calls EXCEPT ![c] = Idle]
               /\ redis' = redisSetEx(CrdsKey, CACHE_DURATION, StringifyCrds(<< >>))
          ELSE /\ calls' = Goto(c, "setEx", SetProp(loc, "crds", MapCrds(FilterCrds(items))))
               /\ last' = Idle
               /\ UNCHANGED redis
  /\ UNCHANGED <<config, cache, now, ncalls, warm, invalidated>>

\* The reply of listClusterCustomObject for the CRDs: a rejected call or a
\* throwing filter/map ends in the catch block, which returns []; otherwise
\* the SETEX of the mapped list is issued.
ListCrdsResponse(c, resp) ==
  /\ calls[c].op = "listAllAquaSecurityCRDs" /\ calls[c].pc = "listCRDs"
  /\ LET items == IF resp.ok /\ resp.hasItems THEN resp.items ELSE << >>
         loc == [listOutcome |-> IF resp.ok THEN "ok" ELSE "rejected", items |-> items,
                 before |-> redis[CrdsKey]]
     IN IF ~resp.ok \/ ProcessingThrows(items)
          THEN /\ last' = Ended([calls[c] EXCEPT !.loc = loc], Returned(<< >>, "api"))
               /\ calls' = [calls EXCEPT ![c] = Idle]
          ELSE /\ calls' = Goto(c, "setEx", SetProp(loc, "crds", MapCrds(FilterCrds(items))))
               /\ last' = Idle
  /\ UNCHANGED <<config, redis, cache, now, ncalls, warm, invalidated>>

\* The reply of `await redisClient.setEx(...)`: the list is stored and
\* returned, or the rejection is caught and [] returned.
ListCrdsSetEx(c, ok) ==
  /\ calls[c].op = "listAllAquaSecurityCRDs" /\ calls[c].pc = "setEx"
  /\ LET crds == calls[c].loc.crds
         loc == SetProp(calls[c].loc, "before", redis[CrdsKey])
     IN IF ok
          THEN /\ redis' = redisSetEx(CrdsKey, CACHE_DURATION, StringifyCrds(crds))
               /\ last' = Ended([calls[c] EXCEPT !.loc = loc], Returned(crds, "api"))
          ELSE /\ last' = Ended([calls[c] EXCEPT !.loc = loc, !.fault = "setEx"],
                                Returned(<< >>, "api"))
               /\ UNCHANGED redis
  /\ calls' = [calls EXCEPT ![c] = Idle]
  /\ UNCHANGED <<config, cache, now, ncalls, warm, invalidated>>

(***************************************************************************)
(* invalidateCache(crdPlural)                                              *)
(***************************************************************************)
\* Variant of InvalidateCache that deletes the key without its 'reports:'
\* prefix, a key the store never holds.
InvalidateCacheBareKey(c, crdPlural, ok) ==
  /\ RedisImpl /\ CanStart(c)
  /\ ncalls' = ncalls + 1
  /\ LET start == [Idle EXCEPT !.op = "invalidateCache", !.p = crdPlural,
                     !.loc = [found |-> redisGet(ReportsKey(crdPlural)).present,
                              before |-> redis]]
     IN IF ok
          THEN /\ last' = Ended(start, Returned(Undefined, "none"))
               /\ warm' = [warm EXCEPT ![crdPlural] = FALSE]
               /\ invalidated' = [invalidated EXCEPT ![crdPlural] =
                                    IF start.loc.found THEN "removed" ELSE "absent"]
               /\ UNCHANGED redis
          ELSE /\ last' = Ended([start EXCEPT !.fault = "del"], Thrown(RedisError))
               /\ UNCHANGED <<redis, warm, invalidated>>
  /\ UNCHANGED <<config, cache, now, calls>>

\* Variant of InvalidateCache that empties the store.
InvalidateCacheAll(c, crdPlural, ok) ==
  /\ RedisImpl /\ CanStart(c)
  /\ ncalls' = ncalls + 1
  /\ LET start == [Idle EXCEPT !.op = "invalidateCache", !.p = crdPlural,
                     !.loc = [found |-> redisGet(ReportsKey(crdPlural)).present,
                              before |-> redis]]
     IN IF ok
          THEN /\ redis' = [k \in Keys |-> NoEntry]
               /\ last' = Ended(start, Returned(Undefined, "none"))
               /\ warm' = [p \in Plurals |-> FALSE]
               /\ invalidated' = [invalidated EXCEPT ![crdPlural] =
                                    IF start.loc.found THEN "removed" ELSE "absent"]
          ELSE /\ last' = Ended([start EXCEPT !.fault = "del"], Thrown(RedisError))
               /\ UNCHANGED <<redis, warm, invalidated>>
  /\ UNCHANGED <<config, cache, now, calls>>

\* Variant of InvalidateCache that treats a DEL that removed nothing as an
\* error.
InvalidateCacheStrict(c, crdPlural, ok) ==
  /\ RedisImpl /\ CanStart(c)
  /\ ncalls' = ncalls + 1
  /\ LET start == [Idle EXCEPT !.op = "invalidateCache", !.p = crdPlural,
                     !.loc = [found |-> redisGet(ReportsKey(crdPlural)).present,
                              before |-> redis]]
     IN IF ok /\ start.loc.found
          THEN /\ redis' = redisDel(ReportsKey(crdPlural))
               /\ last' = Ended(start, Returned(Undefined, "none"))
               /\ warm' = [warm EXCEPT ![crdPlural] = FALSE]
               /\ invalidated' = [invalidated EXCEPT ![crdPlural] = "removed"]
        ELSE IF ok
          THEN /\ last' = Ended(start, Thrown("no such key"))
               /\ UNCHANGED <<redis, warm, invalidated>>
          ELSE /\ last' = Ended([start EXCEPT !.fault = "del"], Thrown(RedisError))
               /\ UNCHANGED <<redis, warm, invalidated>>
  /\ UNCHANGED <<config, cache, now, calls>>

\* history: the loadReports(crdPlural) calls in flight that hold a payload
\* built from cluster answers are marked as older than the DEL
MarkStale(crdPlural) ==
  [c \in Callers |->
     IF calls[c].op = "loadReports" /\ calls[c].p = crdPlural
        /\ calls[c].pc \in {"setEx", "catchSetEx"}
       THEN [calls[c] EXCEPT !.loc = SetProp(calls[c].loc, "stale", TRUE)]
       ELSE calls[c]]

\* Call, and the reply of `await redisClient.del(cacheKey)`; the number of
\* keys DEL removed is not looked at.
InvalidateCache(c, crdPlural, ok) ==
  /\ RedisImpl /\ CanStart(c)
  /\ ncalls' = ncalls + 1
  /\ LET start == [Idle EXCEPT !.op = "invalidateCache", !.p = crdPlural,
                     !.loc = [found |-> redisGet(ReportsKey(crdPlural)).present,
                              before |-> redis]]
     IN IF ok
          THEN /\ redis' = redisDel(ReportsKey(crdPlural))
               /\ last' = Ended(start, Returned(Undefined, "none"))
               /\ warm' = [warm EXCEPT ![crdPlural] = FALSE]
               /\ invalidated' = [invalidated EXCEPT ![crdPlural] =
                                    IF start.loc.found THEN "removed" ELSE "absent"]
               /\ calls' = MarkStale(crdPlural)
          ELSE /\ last' = Ended([start EXCEPT !.fault = "del"], Thrown(RedisError))
               /\ UNCHANGED <<redis, warm, invalidated, calls>>
  /\ UNCHANGED <<config, cache, now>>

(***************************************************************************)
(* Time.  Redis drops an entry when its TTL has elapsed.                   *)
(***************************************************************************)
Expired(entry, t) == entry.present /\ entry.exp <= t

Tick ==
  /\ RedisImpl
  /\ now + TickStep <= MaxTime
  /\ now' = now + TickStep
  /\ redis' = [k \in Keys |-> IF Expired(redis[k], now') THEN NoEntry ELSE redis[k]]
  /\ warm' = [p \in Plurals |-> warm[p] /\ ~Expired(redis[ReportsKey(p)], now')]
  /\ last' = Idle
  /\ UNCHANGED <<config, cache, calls, ncalls, invalidated>>

(***************************************************************************)
(* The simplified implementation: loadReports over an in-process map.      *)
(***************************************************************************)
SIMPLE_CACHE_DURATION == 5 * 60 * 1000

\* Date.now(), milliseconds
DateNow == now * 1000

\* cache[crdPlural] = { data, timestamp }
CacheEntry(data, timestamp) == [present |-> TRUE, data |-> data, timestamp |-> timestamp]

\* Variant of CacheFresh with <= in place of <.
CacheFreshInclusive(entry, nowMs) ==
  entry.present /\ nowMs - entry.timestamp <= SIMPLE_CACHE_DURATION

\* cache[crdPlural] && (now - cache[crdPlural].timestamp < CACHE_DURATION)
CacheFresh(entry, nowMs) == entry.present /\ nowMs - entry.timestamp < SIMPLE_CACHE_DURATION

\* Call: a fresh entry is returned as it is; otherwise the kubeconfig is
\* loaded, the cluster name resolved and the all-namespaces listing issued.
SimpleLoadReports(c, crdPlural) ==
  /\ MemoryImpl /\ CanStart(c)
  /\ ncalls' = ncalls + 1
  /\ LET start == [Idle EXCEPT !.op = "simpleLoadReports", !.p = crdPlural,
                     !.loc = [now |-> DateNow, seen |-> cache[crdPlural],
                              clusterName |-> clusterName]]
     IN IF CacheFresh(cache[crdPlural], DateNow)
          THEN /\ last' = Ended(start, Returned(cache[crdPlural].data, "cache"))
               /\ UNCHANGED calls
          ELSE /\ calls' = [calls EXCEPT ![c] = [start EXCEPT !.pc = "list", !.api = 1]]
               /\ last' = Idle
  /\ UNCHANGED <<config, redis, cache, now, warm, invalidated>>

\* The reply of listCustomObjectForAllNamespaces: the result, or the error
\* payload, is stored with the timestamp taken at the call and returned.
SimpleListResponse(c, resp) ==
  /\ calls[c].op = "simpleLoadReports" /\ calls[c].pc = "list"
  /\ LET loc == calls[c].loc
         data == IF resp.ok
                   THEN [reports |-> resp.items, clusterName |-> loc.clusterName]
                   ELSE [reports |-> << >>, error |-> "HTTP request failed",
                         clusterName |-> loc.clusterName]
     IN /\ cache' = [cache EXCEPT ![calls[c].p] = CacheEntry(data, loc.now)]
        /\ last' = Ended(calls[c], Returned(data, "api"))
  /\ calls' = [calls EXCEPT ![c] = Idle]
  /\ UNCHANGED <<config, redis, now, ncalls, warm, invalidated>>

SimpleTick ==
  /\ MemoryImpl
  /\ now + SimpleTickStep <= SimpleMaxTime
  /\ now' = now + SimpleTickStep
  /\ last' = Idle
  /\ UNCHANGED <<config, redis, cache, calls, ncalls, warm, invalidated>>

(***************************************************************************)
(* The two helpers on their own: the arguments are drawn at the start, one *)
(* step applies the helper.                                                *)
(***************************************************************************)
ItemEmptyStamp == Obj([metadata |-> Obj([name |-> Str(""), creationTimestamp |-> Str("")])])
ItemNullMetadata == Obj([metadata |-> Null, report |-> Str("none")])

\* first arguments of extractValue
ExtractObjects ==
  {ItemFull, ItemBare, ItemEmptyStamp, ItemNullMetadata, EmptyObj, Null, Undefined}

\* second arguments of extractValue, as jsonPath.split('.') gives them
ExtractPaths ==
  {PathName, PathCreation, PathCritical, PathUpdate, << >>, <<"">>,
   <<"", "metadata">>, <<"", "report">>, <<"", "report", "summary">>,
   <<"", "metadata", "uid">>, <<"", "status", "phase">>,
   <<"", "metadata", "name", "first">>, <<"", "report", "summary", "criticalCount", "max">>,
   <<"", "metadata", "toString">>, <<"", "constructor">>,
   <<"", "metadata", "creation">>}

\* arguments of getColumnDefinitions
VersionInfos ==
  {FindVersion(crd.versions) : crd \in {k \in CRDObjects : k.hasVersions}}
  \cup {FindVersion(<<Version("v1alpha1", TRUE, <<ColUpdated>>)>>)}

\* printer columns that share a name, and one named like the record's own key
ColCriticalAgain ==
  [name |-> "Critical", description |-> Undefined,
   jsonPath |-> PathName, type |-> "string", priority |-> Undefined]
ColMetadata ==
  [name |-> "metadata", description |-> Undefined,
   jsonPath |-> PathCritical, type |-> "integer", priority |-> Undefined]

\* the columns loadReports projects with
ColumnLists ==
  {DefaultColumns, MapColumns(<<ColCritical, ColUpdated>>), MapColumns(<<ColUpdated>>),
   MapColumns(<<ColCritical, ColCriticalAgain>>), MapColumns(<<ColCritical, ColCritical>>),
   MapColumns(<<ColMetadata>>), MapColumns(<<ColMetadata, ColUpdated>>)}

\* the instances loadReports projects
ProjectedItemLists ==
  ItemLists \cup {<<ItemBare>>, <<ItemBare, ItemFull>>, <<ItemEmptyStamp, ItemFull, ItemBare>>}

HelperCalls ==
  {[Idle EXCEPT !.op = "extractValue", !.pc = "call",
                !.loc = [obj |-> obj, jsonPath |-> jsonPath]] :
     obj \in ExtractObjects, jsonPath \in ExtractPaths}
  \cup {[Idle EXCEPT !.op = "getColumnDefinitions", !.pc = "call",
                     !.loc = [versionInfo |-> versionInfo]] : versionInfo \in VersionInfos}
  \cup {[Idle EXCEPT !.op = "filteredReports", !.pc = "call",
                     !.loc = [items |-> items, columns |-> columns]] :
          items \in ProjectedItemLists, columns \in ColumnLists}

InitHelpers ==
  /\ impl = "redis"
  /\ kubeConfig = [currentCluster |-> Str("kind-trivy")]
  /\ process = "running"
  /\ clusterName = ResolveClusterName(kubeConfig.currentCluster)
  /\ redis = [k \in Keys |-> NoEntry]
  /\ cache = [p \in Plurals |-> NoEntry]
  /\ now = 0
  /\ calls \in {[c \in Callers |-> IF c = "h1" THEN call ELSE Idle] : call \in HelperCalls}
  /\ last = Idle
  /\ ncalls = 0
  /\ warm = [p \in Plurals |-> FALSE]
  /\ invalidated = [p \in Plurals |-> "no"]

\* extractValue(obj, jsonPath) is applied
ExtractValue(c) ==
  /\ calls[c].op = "extractValue" /\ calls[c].pc = "call"
  /\ last' = Ended(calls[c],
                   Returned(extractValue(calls[c].loc.obj, calls[c].loc.jsonPath), "none"))
  /\ calls' = [calls EXCEPT ![c] = Idle]
  /\ UNCHANGED <<config, redis, cache, now, ncalls, warm, invalidated>>

\* getColumnDefinitions(versionInfo) is applied; for a versionInfo that was
\* found, loadReports goes on to choose the columns it projects with
GetColumnDefinitions(c) ==
  /\ calls[c].op = "getColumnDefinitions" /\ calls[c].pc = "call"
  /\ LET versionInfo == calls[c].loc.versionInfo
         loc == IF versionInfo.found
                  THEN SetProp(calls[c].loc, "columns", ColumnsFor(versionInfo))
                  ELSE calls[c].loc
     IN last' = Ended([calls[c] EXCEPT !.loc = loc],
                      Returned(getColumnDefinitions(versionInfo), "none"))
  /\ calls' = [calls EXCEPT ![c] = Idle]
  /\ UNCHANGED <<config, redis, cache, now, ncalls, warm, invalidated>>

\* the projection of loadReports, items.map(...), is applied
ProjectItems(c) ==
  /\ calls[c].op = "filteredReports" /\ calls[c].pc = "call"
  /\ last' = Ended(calls[c],
                   Returned(FilteredReports(calls[c].loc.items, calls[c].loc.columns), "none"))
  /\ calls' = [calls EXCEPT ![c] = Idle]
  /\ UNCHANGED <<config, redis, cache, now, ncalls, warm, invalidated>>

NextHelpers ==
  \/ \E c \in Callers : ExtractValue(c)
  \/ \E c \in Callers : GetColumnDefinitions(c)
  \/ \E c \in Callers : ProjectItems(c)

SpecHelpers == InitHelpers /\ [][NextHelpers]_vars

\* sequences of CRD objects of length at most n
RECURSIVE CrdSeqs(_)
CrdSeqs(n) ==
  IF n = 0 THEN {<< >>}
  ELSE CrdSeqs(n - 1) \cup {Append(q, k) : q \in {r \in CrdSeqs(n - 1) : Len(r) = n - 1},
                                           k \in CRDObjects}

\* what listClusterCustomObject can answer for the CRDs
CrdListResponses ==
  {[ok |-> FALSE], [ok |-> TRUE, hasItems |-> FALSE]}
  \cup {[ok |-> TRUE, hasItems |-> TRUE, items |-> items] : items \in CrdSeqs(MaxCRDs)}

\* the discovery service alone
NextDiscovery ==
  \/ \E c \in Callers, ok \in BOOLEAN : ListCrdsGet(c, ok)
  \/ \E c \in Callers, resp \in CrdListResponses : ListCrdsResponse(c, resp)
  \/ \E c \in Callers, ok \in BOOLEAN : ListCrdsSetEx(c, ok)
  \/ Tick

SpecDiscovery == Init /\ [][NextDiscovery]_vars

\* The three operations of the primary implementation side by side, with
\* one cluster answer of each kind.
KeysCrdResponses(crdPlural) ==
  {resp \in CrdResponses(crdPlural) : resp.ok => resp.body \in {CrdClusterCols, CrdNamespaced}}
KeysListResponses == {resp \in ListResponses : resp.ok => resp.items # << >>}
KeysCrdListResponses ==
  {resp \in CrdListResponses :
     resp.ok => (resp.hasItems /\ resp.items = <<CrdClusterCols, CrdNamespaced>>)}

NextKeys ==
  \/ \E c \in Callers, p \in Plurals, ok \in BOOLEAN : LoadReportsGet(c, p, ok)
  \/ \E c \in Callers : \E resp \in KeysCrdResponses(calls[c].p) : LoadReportsCrdResponse(c, resp)
  \/ \E c \in Callers, resp \in KeysListResponses : LoadReportsListResponse(c, resp)
  \/ \E c \in Callers, ok \in BOOLEAN : LoadReportsSetEx(c, ok)
  \/ \E c \in Callers, ok \in BOOLEAN : LoadReportsCatchSetEx(c, ok)
  \/ \E c \in Callers, p \in Plurals, ok \in BOOLEAN : InvalidateCache(c, p, ok)
  \/ \E c \in Callers, ok \in BOOLEAN : ListCrdsGet(c, ok)
  \/ \E c \in Callers, resp \in KeysCrdListResponses : ListCrdsResponse(c, resp)
  \/ \E c \in Callers, ok \in BOOLEAN : ListCrdsSetEx(c, ok)
  \/ Tick

SpecKeys == Init /\ [][NextKeys]_vars

\* loadReports in a process whose kubeconfig names its current cluster, names
\* it with the empty string, or has no current cluster
CurrentClusterNames == {Str("kind-trivy"), Str(""), Undefined}

InitCluster == InitWith(CurrentClusterNames)

NextCluster ==
  \/ \E c \in Callers, p \in Plurals, ok \in BOOLEAN : LoadReportsGet(c, p, ok)
  \/ \E c \in Callers : \E resp \in CrdResponses(calls[c].p) : LoadReportsCrdResponse(c, resp)
  \/ \E c \in Callers, resp \in ListResponses : LoadReportsListResponse(c, resp)
  \/ \E c \in Callers, ok \in BOOLEAN : LoadReportsSetEx(c, ok)
  \/ \E c \in Callers, ok \in BOOLEAN : LoadReportsCatchSetEx(c, ok)

SpecCluster == InitCluster /\ [][NextCluster]_vars

(***************************************************************************)
(* Shutdown: process.on('SIGINT', async () => { await redisClient.quit();  *)
(* process.exit(0) }), next to loadReports calls in flight.                *)
(***************************************************************************)
Running == process = "running"

\* SIGINT is delivered: the listener starts, logs and issues QUIT
Sigint(c) ==
  /\ RedisImpl /\ Running /\ CanStart(c)
  /\ ncalls' = ncalls + 1
  /\ calls' = [calls EXCEPT ![c] = [Idle EXCEPT !.op = "SIGINT", !.pc = "quit"]]
  /\ last' = Idle
  /\ UNCHANGED <<config, redis, cache, now, warm, invalidated>>

\* The reply of `await redisClient.quit()`: fulfilled, the listener calls
\* process.exit(0); rejected, the listener's promise is rejected and nothing
\* handles it, on which the runtime either terminates the process with
\* exit code 1 or only warns (its unhandled-rejections mode).
SigintQuitReply(c, ok, terminate) ==
  /\ Running
  /\ calls[c].op = "SIGINT" /\ calls[c].pc = "quit"
  /\ calls' = [calls EXCEPT ![c] = Idle]
  /\ IF ok
       THEN /\ last' = Ended(calls[c], Returned([exitCode |-> 0], "none"))
            /\ process' = "exited"
       ELSE /\ last' = Ended([calls[c] EXCEPT !.fault = "quit"], Thrown(RedisError))
            /\ process' = IF terminate THEN "exited" ELSE "running"
  /\ UNCHANGED <<impl, kubeConfig, clusterName, redis, cache, now, ncalls, warm, invalidated>>

NextShutdown ==
  \/ \E c \in Callers : Sigint(c)
  \/ \E c \in Callers, ok \in BOOLEAN, terminate \in BOOLEAN : SigintQuitReply(c, ok, terminate)
  \/ Running /\ \E c \in Callers, p \in Plurals, ok \in BOOLEAN : LoadReportsGet(c, p, ok)
  \/ Running /\ \E c \in Callers : \E resp \in KeysCrdResponses(calls[c].p) :
                   LoadReportsCrdResponse(c, resp)
  \/ Running /\ \E c \in Callers, resp \in KeysListResponses : LoadReportsListResponse(c, resp)
  \/ Running /\ \E c \in Callers, ok \in BOOLEAN : LoadReportsSetEx(c, ok)
  \/ Running /\ \E c \in Callers, ok \in BOOLEAN : LoadReportsCatchSetEx(c, ok)

\* the store answers every QUIT and the event loop runs the continuation
SpecShutdown ==
  /\ Init /\ [][NextShutdown]_vars
  /\ \A c \in Callers :
       WF_vars(\E ok \in BOOLEAN, terminate \in BOOLEAN : SigintQuitReply(c, ok, terminate))

\* the report service of either implementation
Next ==
  \/ \E c \in Callers, p \in Plurals, ok \in BOOLEAN : LoadReportsGet(c, p, ok)
  \/ \E c \in Callers : \E resp \in CrdResponses(calls[c].p) : LoadReportsCrdResponse(c, resp)
  \/ \E c \in Callers, resp \in ListResponses : LoadReportsListResponse(c, resp)
  \/ \E c \in Callers, ok \in BOOLEAN : LoadReportsSetEx(c, ok)
  \/ \E c \in Callers, ok \in BOOLEAN : LoadReportsCatchSetEx(c, ok)
  \/ \E c \in Callers, p \in Plurals, ok \in BOOLEAN : InvalidateCache(c, p, ok)
  \/ Tick
  \/ \E c \in Callers, p \in Plurals : SimpleLoadReports(c, p)
  \/ \E c \in Callers, resp \in ListResponses : SimpleListResponse(c, resp)
  \/ SimpleTick

Spec == Init /\ [][Next]_vars

(***************************************************************************)
(* Properties.                                                             *)
(***************************************************************************)
IsLoad(call) == call.op = "loadReports"
IsList(call) == call.op = "listAllAquaSecurityCRDs"
IsInvalidate(call) == call.op = "invalidateCache"
IsSimple(call) == call.op = "simpleLoadReports"
Has(call, k) == k \in DOMAIN call.loc
FromApi(call) == call.ret.kind = "value" /\ call.ret.from = "api"
FromCache(call) == call.ret.kind = "value" /\ call.ret.from = "cache"

\* C1: a loadReports(p) that starts after a loadReports(p) returned, with no
\* DEL of 'reports:p' and no expiry of the entry in between, issues no
\* cluster-API request, and what it returns is the parsed cache entry; the
\* entry is there for as long as that holds.
C1_SecondCallServedFromCache ==
  /\ \A p \in Plurals : warm[p] => redis[ReportsKey(p)].present
  /\ \A c \in Callers : IsLoad(calls[c]) => ~calls[c].loc.warmAtGet
  /\ (IsLoad(last) /\ last.loc.warmAtGet) =>
       /\ last.api = 0
       /\ last.ret.kind = "value" =>
            /\ last.ret.from = "cache"
            /\ last.ret.val = Parse(redis[ReportsKey(last.p)].text)

\* a second call served from an entry written at an earlier time
C1_Witness ==
  /\ IsLoad(last) /\ last.loc.warmAtGet /\ last.ret.kind = "value"
  /\ last.ret.from = "cache" /\ last.loc.writtenAt < now

\* C2: after a completed invalidateCache(p), and until 'reports:p' is written
\* again, the key holds no entry, and a loadReports(p) that starts then is
\* never served from the cache: once its GET is answered it has issued the
\* CRD lookup.
C2_FreshFetchAfterInvalidate ==
  /\ \A p \in Plurals : invalidated[p] # "no" => ~redis[ReportsKey(p)].present
  /\ \A c \in Callers : (IsLoad(calls[c]) /\ calls[c].loc.afterDel # "no") => calls[c].api >= 1
  /\ (IsLoad(last) /\ last.loc.afterDel # "no" /\ last.fault # "get") =>
       /\ last.api >= 1
       /\ last.ret.kind = "value" => last.ret.from = "api"

\* the invalidation removed a live entry and the next call fetched again
C2_Witness ==
  /\ IsLoad(last) /\ last.loc.afterDel = "removed"
  /\ last.ret.kind = "value" /\ last.ret.from = "api" /\ last.api = 2

\* C3: listAllAquaSecurityCRDs and loadReports never end in a thrown error.
C3_NeverThrows ==
  (IsLoad(last) \/ IsList(last)) => last.ret.kind = "value"

\* what the cluster API fetch of a call produced, when it got that far
Fetched(call) ==
  IF IsLoad(call) THEN call.loc.data ELSE call.loc.crds

\* C4: a call in which a cache operation was rejected still returns a value
\* fetched from the cluster API; after a rejected cache write that value is
\* the fetched result.
C4_CacheErrorIsMiss ==
  ((IsLoad(last) \/ IsList(last)) /\ last.fault # "none") =>
     /\ last.ret.kind = "value"
     /\ last.ret.from = "api"
     /\ last.fault = "setEx" => last.ret.val = Fetched(last)

SchemaFailed(call) ==
  Has(call, "crdOutcome") /\ call.loc.crdOutcome \in {"rejected", "noSpec", "noVersions", "noAlpha"}

\* C5: a loadReports(p) whose schema resolution failed issues no instance
\* listing; the payload it returns is the error placeholder for p, and it is
\* stored under 'reports:p' with a TTL of CACHE_DURATION, the TTL of every
\* entry; a later hit returns exactly the stored payload with no cluster-API
\* request.
C5_NegativeCaching ==
  /\ \A c \in Callers : (IsLoad(calls[c]) /\ SchemaFailed(calls[c])) =>
       calls[c].api = 1 /\ ~Has(calls[c], "listCall")
  /\ (IsLoad(last) /\ SchemaFailed(last)) =>
       /\ last.api = 1
       /\ last.ret.kind = "value" =>
            /\ last.ret.val.manifests = << >>
            /\ last.ret.val.clusterName = "Unknown Cluster"
            /\ last.ret.val.scope = "Unknown"
            /\ "error" \in DOMAIN last.ret.val /\ last.ret.val.error # ""
            /\ last.ret.val.resource = last.p
            /\ DOMAIN last.ret.val = {"manifests", "clusterName", "scope", "error", "resource"}
            /\ redis[ReportsKey(last.p)].present
            /\ Parse(redis[ReportsKey(last.p)].text) = last.ret.val
            /\ redis[ReportsKey(last.p)].exp = now + CACHE_DURATION
  /\ \A k \in Keys : redis[k].present => redis[k].exp = redis[k].at + CACHE_DURATION
  /\ (IsLoad(last) /\ last.ret.kind = "value" /\ last.ret.from = "cache") =>
       /\ last.api = 0
       /\ last.ret.val = Parse(redis[ReportsKey(last.p)].text)

\* a later call is served the cached error placeholder
C5_Witness ==
  /\ IsLoad(last) /\ last.ret.kind = "value" /\ last.ret.from = "cache"
  /\ "error" \in DOMAIN last.ret.val /\ last.ret.val.scope = "Unknown"
  /\ last.loc.writtenAt < now

\* the scope of a CRD object as the API reports it, "Cluster" when unspecified
RealScope(crd) == IF crd.scope = Undefined THEN "Cluster" ELSE crd.scope.v

ListingFailed(call) == Has(call, "listOutcome") /\ call.loc.listOutcome = "rejected"

\* C6: when the schema was resolved and the instance listing is rejected, the
\* call goes on to store the payload with manifests = [], no error field, the
\* CRD's scope and the resolved cluster name; it reaches the catch block only
\* if that cache write is rejected, and otherwise returns this payload, which
\* is then the cache entry.
C6_ListingFailureIsEmptyReport ==
  /\ \A c \in Callers : (IsLoad(calls[c]) /\ ListingFailed(calls[c])) =>
       /\ calls[c].loc.data = [manifests |-> << >>, clusterName |-> clusterName,
                               scope |-> RealScope(calls[c].loc.crd), resource |-> calls[c].p]
       /\ calls[c].pc = "setEx" \/ (calls[c].pc = "catchSetEx" /\ calls[c].fault = "setEx")
  /\ (IsLoad(last) /\ ListingFailed(last) /\ last.fault = "none") =>
       /\ last.ret.kind = "value"
       /\ last.ret.val = [manifests |-> << >>, clusterName |-> clusterName,
                          scope |-> RealScope(last.loc.crd), resource |-> last.p]
       /\ "error" \notin DOMAIN last.ret.val
       /\ redis[ReportsKey(last.p)].present
       /\ Parse(redis[ReportsKey(last.p)].text) = last.ret.val

\* a call whose listing was rejected returned the empty report of a
\* namespaced CRD
C6_Witness ==
  /\ IsLoad(last) /\ ListingFailed(last) /\ last.ret.kind = "value"
  /\ last.ret.val.scope = "Namespaced" /\ last.ret.val.manifests = << >>

\* the positions of a listing that discovery keeps
Kept(items) ==
  {i \in 1..Len(items) : items[i].group = AquaGroup /\ items[i].scope # Str("Namespaced")}

\* every listed CRD can be filtered and every kept one mapped
WellFormed(items) ==
  /\ \A i \in 1..Len(items) : items[i].hasSpec
  /\ \A i \in Kept(items) : items[i].hasVersions

\* the columns of the first 'v1alpha1' entry of a CRD, none when there is no
\* such entry or it declares no printer columns
AlphaColumns(crd) ==
  LET alpha == {i \in 1..Len(crd.versions) : crd.versions[i].name = "v1alpha1"}
  IN IF alpha = {} THEN << >>
     ELSE LET first == CHOOSE i \in alpha : \A j \in alpha : i <= j
              v == crd.versions[first]
          IN IF ~v.hasColumns THEN << >>
             ELSE [n \in 1..Len(v.additionalPrinterColumns) |->
                     [name |-> v.additionalPrinterColumns[n].name,
                      description |-> v.additionalPrinterColumns[n].description,
                      jsonPath |-> v.additionalPrinterColumns[n].jsonPath,
                      type |-> v.additionalPrinterColumns[n].type,
                      priority |-> v.additionalPrinterColumns[n].priority]]

\* result holds one entry per kept position of items, in order
IsDiscoveryOf(result, items) ==
  /\ Len(result) = Cardinality(Kept(items))
  /\ \A i \in Kept(items) :
       LET n == Cardinality({j \in Kept(items) : j <= i})
       IN /\ result[n].group = AquaGroup
          /\ result[n].plural = items[i].plural
          /\ result[n].scope = items[i].scope
          /\ result[n].columns = AlphaColumns(items[i])
          /\ DOMAIN result[n] = {"group", "plural", "columns", "scope"}

ListedOk(call) == Has(call, "listOutcome") /\ call.loc.listOutcome = "ok"

\* C7: a listAllAquaSecurityCRDs that missed the cache, got a CRD listing it
\* could process and stored its result returns one CRDMetadata per listed CRD
\* of group 'aquasecurity.github.io' whose scope is not 'Namespaced', in
\* listing order, with that CRD's plural, scope and 'v1alpha1' columns.
C7_DiscoveryFiltersAndMaps ==
  /\ \A c \in Callers : (IsList(calls[c]) /\ calls[c].pc = "setEx") =>
       IsDiscoveryOf(calls[c].loc.crds, calls[c].loc.items)
  /\ (IsList(last) /\ ListedOk(last) /\ WellFormed(last.loc.items) /\ last.fault = "none") =>
       /\ FromApi(last)
       /\ IsDiscoveryOf(last.ret.val, last.loc.items)

\* a listing of a cluster-scoped and a namespaced vendor CRD gave one entry
C7_Witness ==
  /\ IsList(last) /\ ListedOk(last) /\ last.fault = "none"
  /\ last.loc.items = <<CrdClusterCols, CrdNamespaced>>
  /\ Len(last.ret.val) = 1 /\ last.ret.val[1].plural = "configauditreports"

\* C8: a listAllAquaSecurityCRDs whose listing is rejected, or that cannot
\* process a listed CRD, returns [] and leaves 'aqua_security_crds' as it
\* was; a call that writes the key writes the whole result of its listing;
\* the key only ever holds the whole result of a processable listing.
C8_DiscoveryAllOrNothing ==
  /\ (IsList(last) /\ FromApi(last)
        /\ (last.loc.listOutcome = "rejected" \/ ~WellFormed(last.loc.items))) =>
       /\ last.ret.val = << >>
       /\ redis[CrdsKey] = last.loc.before
  /\ (IsList(last) /\ FromApi(last) /\ redis[CrdsKey] # last.loc.before) =>
       /\ WellFormed(last.loc.items)
       /\ IsDiscoveryOf(last.ret.val, last.loc.items)
       /\ redis[CrdsKey].text = StringifyCrds(last.ret.val)
  /\ redis[CrdsKey].present =>
       \E items \in CrdSeqs(MaxCRDs) :
          /\ WellFormed(items)
          /\ redis[CrdsKey].text = StringifyCrds(MapCrds(FilterCrds(items)))

\* a listing whose second CRD cannot be mapped gave [] while an entry of an
\* earlier listing stayed in place
C8_Witness ==
  /\ IsList(last) /\ FromApi(last) /\ last.ret.val = << >>
  /\ last.loc.listOutcome = "ok"
  /\ Len(last.loc.items) = 2 /\ IsClusterAquaCrd(last.loc.items[1])
  /\ last.loc.items[1].hasVersions /\ ~last.loc.items[2].hasVersions

\* C9: a value is returned from the cache only while it is not expired: by
\* the primary implementation less than CACHE_DURATION seconds after the
\* entry was written, and every entry expires CACHE_DURATION seconds after its
\* write; by the simplified implementation only if now - timestamp < 300000 at
\* the call, and a call that finds no such entry fetches and overwrites the
\* entry with its result.
C9_NoExpiredData ==
  /\ \A k \in Keys : redis[k].present =>
       /\ redis[k].exp = redis[k].at + CACHE_DURATION
       /\ now < redis[k].exp
  /\ ((IsLoad(last) \/ IsList(last)) /\ FromCache(last)) =>
       now - last.loc.writtenAt < CACHE_DURATION
  /\ (IsSimple(last) /\ FromCache(last)) =>
       /\ last.loc.seen.present
       /\ last.loc.now - last.loc.seen.timestamp < 300000
       /\ last.ret.val = last.loc.seen.data
  /\ \A c \in Callers : IsSimple(calls[c]) =>
       /\ calls[c].api = 1
       /\ ~(calls[c].loc.seen.present
            /\ calls[c].loc.now - calls[c].loc.seen.timestamp < 300000)
  /\ (IsSimple(last) /\ FromApi(last)) =>
       cache[last.p] = [present |-> TRUE, data |-> last.ret.val, timestamp |-> last.loc.now]

\* the simplified implementation refetched over an entry that had expired
C9_Witness ==
  /\ IsSimple(last) /\ FromApi(last)
  /\ last.loc.seen.present
  /\ last.loc.now - last.loc.seen.timestamp >= 300000

\* C10: invalidateCache(p) throws only when the DEL itself is rejected, never
\* because the key is absent; when it returns, 'reports:p' is absent, every
\* other key is as before, the store is unchanged if the key was absent, and
\* a further DEL of the key would change nothing.
C10_InvalidateIdempotent ==
  IsInvalidate(last) =>
    /\ last.ret.kind = "throw" => (last.fault = "del" /\ redis = last.loc.before)
    /\ last.ret.kind = "value" =>
         /\ ~redis[ReportsKey(last.p)].present
         /\ \A k \in Keys \ {ReportsKey(last.p)} : redis[k] = last.loc.before[k]
         /\ ~last.loc.found => redis = last.loc.before
         /\ redisDel(ReportsKey(last.p)) = redis

\* an invalidation of a key that holds nothing, right after an invalidation
\* that removed its entry
C10_Witness ==
  /\ IsInvalidate(last) /\ last.ret.kind = "value" /\ ~last.loc.found
  /\ invalidated[last.p] = "absent" /\ ncalls = 3

\* every ReportsData of the primary implementation in play: built by a call
\* in flight, returned in the step just taken, or held by the store
ReportPayloads ==
  {calls[c].loc.data : c \in {h \in Callers : IsLoad(calls[h]) /\ Has(calls[h], "data")}}
  \cup {calls[c].loc.errData : c \in {h \in Callers : IsLoad(calls[h]) /\ Has(calls[h], "errData")}}
  \cup {last.ret.val : x \in {y \in {1} : IsLoad(last) /\ last.ret.kind = "value"}}
  \cup {Parse(redis[ReportsKey(p)].text) : p \in {q \in Plurals : redis[ReportsKey(q)].present}}

\* C11: every ReportsData built, returned or stored has scope 'Cluster',
\* 'Namespaced' or 'Unknown'; its scope is 'Unknown' exactly when it has an
\* error field, and that field is a non-empty message.
C11_ScopeValues ==
  \A d \in ReportPayloads :
    /\ d.scope \in {"Cluster", "Namespaced", "Unknown"}
    /\ d.scope = "Unknown" <=> "error" \in DOMAIN d
    /\ "error" \in DOMAIN d => d.error # ""

\* a CRD that declares no scope gave a 'Cluster' payload while the store
\* holds an 'Unknown' error placeholder for the other resource
C11_Witness ==
  /\ IsLoad(last) /\ FromApi(last) /\ Has(last, "crd") /\ last.loc.crd.scope = Undefined
  /\ last.ret.val.scope = "Cluster" /\ "error" \notin DOMAIN last.ret.val
  /\ \E p \in Plurals \ {last.p} :
       /\ redis[ReportsKey(p)].present
       /\ Parse(redis[ReportsKey(p)].text).scope = "Unknown"

\* C12: a ReportsData built, returned or stored that has an error field has
\* manifests = []; a call whose cache write of the success payload was
\* rejected returns, if it returns, the error placeholder with manifests = []
\* whatever it had projected, and that placeholder is what the store holds.
C12_NoMixOfDataAndError ==
  /\ \A d \in ReportPayloads : "error" \in DOMAIN d => d.manifests = << >>
  /\ (IsLoad(last) /\ last.fault = "setEx" /\ last.ret.kind = "value") =>
       /\ last.ret.val = ErrorData(last.p, RedisError)
       /\ Parse(redis[ReportsKey(last.p)].text) = last.ret.val

\* the cache write of a payload with two projected instances was rejected
\* and the call returned the placeholder
C12_Witness ==
  /\ IsLoad(last) /\ last.fault = "setEx" /\ last.ret.kind = "value"
  /\ Len(last.loc.data.manifests) = 2
  /\ "error" \in DOMAIN last.ret.val /\ last.ret.val.manifests = << >>

IsExtract(call) == call.op = "extractValue"
IsColumns(call) == call.op = "getColumnDefinitions"

\* the value under the segments, each taken as a direct key of an object
RECURSIVE Nested(_, _)
Nested(val, segments) ==
  IF segments = << >> THEN [found |-> TRUE, val |-> val]
  ELSE IF val.t = "object" /\ Head(segments) \in DOMAIN val.f
    THEN Nested(val.f[Head(segments)], Tail(segments))
    ELSE [found |-> FALSE]

\* a path with a leading dot and at least one segment
DotPath(jsonPath) == Len(jsonPath) >= 2 /\ jsonPath[1] = ""

\* the path ends in 'Timestamp' or contains 'creation'
TimestampRule(jsonPath) ==
  \E i \in 1..Len(jsonPath) :
    jsonPath[i] \in {"creationTimestamp", "creation"}
    \/ (i = Len(jsonPath) /\ jsonPath[i] = "updateTimestamp")

\* C13: extractValue returns and never throws; for a path with a leading dot
\* whose segments all exist as direct keys along the walk, and that is not
\* under the timestamp rule, it returns the nested value; for a path with a
\* missing segment or a non-object intermediate value it returns undefined.
C13_ExtractExactOrUndefined ==
  (IsExtract(last) /\ DotPath(last.loc.jsonPath)) =>
    LET nested == Nested(last.loc.obj, Tail(last.loc.jsonPath))
    IN /\ last.ret.kind = "value"
       /\ (nested.found /\ ~TimestampRule(last.loc.jsonPath)) => last.ret.val = nested.val
       /\ ~nested.found => last.ret.val = Undefined

IsDateString(val) == val = Str("2024-05-01T10:00:00Z")
IsEmptyValue(val) == val \in {Str(""), Null, Undefined}

\* C14: for a path under the timestamp rule whose segments all exist,
\* extractValue returns the raw value when it is empty or is not a date, and
\* the formatted date otherwise.
C14_TimestampPassThrough ==
  (IsExtract(last) /\ DotPath(last.loc.jsonPath) /\ TimestampRule(last.loc.jsonPath)) =>
    LET nested == Nested(last.loc.obj, Tail(last.loc.jsonPath))
    IN nested.found =>
         /\ (IsEmptyValue(nested.val) \/ ~IsDateString(nested.val)) => last.ret.val = nested.val
         /\ IsDateString(nested.val) => last.ret.val = Str("5/1/2024, 10:00:00 AM")

\* C15: getColumnDefinitions returns [] when there is no version info, when
\* it has no additionalPrinterColumns and when that array is empty, and the
\* declared columns otherwise; the columns loadReports projects with are the
\* defaults 'Name' and 'Age' when that result is empty and the declared
\* columns, unchanged, otherwise.
C15_ColumnsOrDefaults ==
  IsColumns(last) =>
    LET v == last.loc.versionInfo
        declared == IF v.found /\ v.hasColumns THEN v.additionalPrinterColumns ELSE << >>
    IN /\ last.ret.val = declared
       /\ (~v.found \/ ~v.hasColumns \/ v.additionalPrinterColumns = << >>) => last.ret.val = << >>
       /\ v.found =>
            /\ last.ret.val = << >> =>
                 /\ Len(last.loc.columns) = Len(<<"Name", "Age">>)
                 /\ last.loc.columns[1] =
                      [name |-> "Name", jsonPath |-> <<"", "metadata", "name">>, type |-> "string"]
                 /\ last.loc.columns[Len(last.loc.columns)] =
                      [name |-> "Age", jsonPath |-> <<"", "metadata", "creationTimestamp">>,
                       type |-> "date"]
            /\ last.ret.val # << >> => last.loc.columns = declared

\* a version whose additionalPrinterColumns is an empty array got the two
\* default columns
C15_Witness ==
  /\ IsColumns(last) /\ last.loc.versionInfo.found /\ last.loc.versionInfo.hasColumns
  /\ last.loc.versionInfo.additionalPrinterColumns = << >>
  /\ last.ret.val = << >> /\ last.loc.columns = DefaultColumns

\* the key a call of the primary implementation works on
KeyOf(call) == IF IsList(call) THEN CrdsKey ELSE ReportsKey(call.p)

\* the call stored what it returns
Stored(call) ==
  /\ FromApi(call)
  /\ IsLoad(call) \/ (IsList(call) /\ Has(call, "crds") /\ call.fault = "none")

\* C16: what a cache-miss call of listAllAquaSecurityCRDs or loadReports
\* returns equals what parsing the entry it stored gives, and a cache hit
\* returns what parsing the entry gives: a hit returns the value the
\* producing call returned, field by field.
C16_RoundTrip ==
  /\ Stored(last) =>
       /\ redis[KeyOf(last)].present
       /\ Parse(redis[KeyOf(last)].text) = last.ret.val
  /\ ((IsLoad(last) \/ IsList(last)) /\ FromCache(last)) =>
       last.ret.val = Parse(redis[KeyOf(last)].text)

\* the step writes and reads no key but the one of the call it ends; the
\* passing of time only drops entries whose TTL has elapsed
OwnKeyOnly ==
  /\ \A k \in Keys : (redis'[k] # redis[k] /\ now' = now) =>
       /\ IsLoad(last') \/ IsList(last') \/ IsInvalidate(last')
       /\ k = KeyOf(last')
  /\ \A k \in Keys : (redis'[k] # redis[k] /\ now' # now) =>
       (redis'[k] = NoEntry /\ redis[k].exp <= now')
  /\ ((IsLoad(last') \/ IsList(last')) /\ FromCache(last')) =>
       last'.ret.val = Parse(redis[KeyOf(last')].text)

\* C17: a step of a handler changes the entry of a key only if it ends a call
\* that works on that key: invalidateCache(p) and loadReports(p) change at most
\* 'reports:p', listAllAquaSecurityCRDs changes at most 'aqua_security_crds';
\* what a hit returns is read from the call's own key.
C17_KeysIndependent ==
  [][OwnKeyOnly]_vars

\* an invalidation removed a report entry while the discovery entry and the
\* other report entry stayed as they were
C17_Witness ==
  /\ IsInvalidate(last) /\ last.ret.kind = "value" /\ last.loc.found
  /\ ~redis[ReportsKey(last.p)].present
  /\ \E k \in Keys \ {ReportsKey(last.p)} : redis[k].present /\ redis[k] = last.loc.before[k]

\* the payload a loadReports call built itself
OwnPayload(call) == IF Has(call, "errData") THEN call.loc.errData ELSE call.loc.data

\* C18: a loadReports(p) that fetched returns, if it returns, the payload it
\* built itself, and at its return 'reports:p' holds exactly that payload,
\* whole, with a fresh TTL, whatever another caller wrote there since this
\* call missed: the entry is always the payload of the last writer.
C18_LastWriteWins ==
  (IsLoad(last) /\ FromApi(last)) =>
    /\ last.ret.val = OwnPayload(last)
    /\ redis[ReportsKey(last.p)] = Entry(StringifyReports(last.ret.val), CACHE_DURATION, now)

\* two calls missed on the same key and both fetched: the second to finish
\* replaced the different payload the first had written
C18_Witness ==
  /\ IsLoad(last) /\ FromApi(last) /\ last.api = 2 /\ last.fault = "none"
  /\ last.loc.before.present
  /\ last.loc.before.text # StringifyReports(last.ret.val)
  /\ "error" \notin DOMAIN Parse(last.loc.before.text)

\* C19: a loadReports(p) never writes, after an invalidateCache(p) has
\* completed, a payload it had built from cluster answers received before
\* that invalidation; so a loadReports(p) that starts after the invalidation
\* is not served such a payload.
C19_InvalidationEffective ==
  (IsLoad(last) /\ FromApi(last)) => ~Has(last, "stale")

\* the kubeconfig's current cluster has a name
NameResolvable == kubeConfig.currentCluster.t = "string" /\ kubeConfig.currentCluster.v # ""

\* C20 as stated: every ReportsData built, returned or stored carries the
\* cluster name resolved at load, which is 'Unknown Cluster' only when the
\* current cluster has no resolvable name.
C20_EveryPayloadNamed ==
  /\ clusterName = "Unknown Cluster" => ~NameResolvable
  /\ \A d \in ReportPayloads : d.clusterName = clusterName

\* C20, amended: the cluster name is the one resolved from the kubeconfig at
\* load, 'Unknown Cluster' exactly when the current cluster has no
\* resolvable name; every ReportsData without an error field, built, returned
\* or stored, carries that name, and every error placeholder carries
\* 'Unknown Cluster' whatever the resolved name is.
C20_SuccessPayloadNamed ==
  /\ NameResolvable => clusterName = kubeConfig.currentCluster.v
  /\ clusterName = "Unknown Cluster" <=> ~NameResolvable
  /\ \A d \in ReportPayloads :
       IF "error" \in DOMAIN d
         THEN d.clusterName = "Unknown Cluster"
         ELSE d.clusterName = clusterName

\* a report served from the cache carries the resolved name while the store
\* holds an error placeholder of the other resource with 'Unknown Cluster'
C20_Witness ==
  /\ NameResolvable
  /\ IsLoad(last) /\ FromCache(last) /\ "error" \notin DOMAIN last.ret.val
  /\ last.ret.val.clusterName = kubeConfig.currentCluster.v
  /\ \E p \in Plurals \ {last.p} :
       /\ redis[ReportsKey(p)].present
       /\ "error" \in DOMAIN Parse(redis[ReportsKey(p)].text)
       /\ Parse(redis[ReportsKey(p)].text).clusterName = "Unknown Cluster"

IsProjection(call) == call.op = "filteredReports"

\* the names of a column list
ColumnNames(columns) == {columns[j].name : j \in 1..Len(columns)}

\* what the extractor gives for a column, null in place of undefined
ColumnValue(item, col) ==
  IF extractValue(item, col.jsonPath) = Undefined THEN Null
  ELSE extractValue(item, col.jsonPath)

\* the record holds the instance's metadata and one key per column with the
\* column's value
ProjectionOf(record, item, columns) ==
  /\ record.t = "object"
  /\ DOMAIN record.f = {"metadata"} \cup ColumnNames(columns)
  /\ record.f.metadata =
       (IF "metadata" \in DOMAIN item.f /\ Truthy(item.f.metadata) THEN item.f.metadata
        ELSE EmptyObj)
  /\ \A j \in 1..Len(columns) : record.f[columns[j].name] = ColumnValue(item, columns[j])

\* C21: the projection gives one record per instance, in order; each holds
\* the instance's metadata under 'metadata' ({} when it has none) and, for
\* every column, the extractor's result for the column's path under the
\* column's name, null when that result is undefined.
C21_ManifestsProjection ==
  IsProjection(last) =>
    /\ Len(last.ret.val) = Len(last.loc.items)
    /\ \A i \in 1..Len(last.loc.items) :
         ProjectionOf(last.ret.val[i], last.loc.items[i], last.loc.columns)

\* the CRD has an entry for 'v1alpha1'
HasAlpha(crd) ==
  crd.hasVersions /\ \E i \in 1..Len(crd.versions) : crd.versions[i].name = "v1alpha1"

\* a loadReports call that missed has issued the CRD lookup and, only after
\* a CRD with a spec and a 'v1alpha1' entry was returned, one listing, of the
\* kind its scope asks for
ListingInOrder(call) ==
  /\ call.api = (IF Has(call, "listCall") THEN 2 ELSE 1)
  /\ call.pc = "list" => Has(call, "listCall")
  /\ Has(call, "listOutcome") => Has(call, "listCall")
  /\ Has(call, "listCall") =>
       /\ call.loc.crdOutcome = "ok"
       /\ call.loc.crd.hasSpec /\ HasAlpha(call.loc.crd)
       /\ call.loc.listCall = "listCustomObjectForAllNamespaces"
            <=> call.loc.crd.scope = Str("Namespaced")
       /\ call.loc.listCall # "listCustomObjectForAllNamespaces"
            => call.loc.listCall = "listClusterCustomObject"
       /\ Has(call, "data") => call.loc.data.scope = RealScope(call.loc.crd)

\* C22: on a cache miss the instance listing is issued only after the CRD
\* lookup returned a CRD with a spec and a 'v1alpha1' entry, and once; it is
\* the all-namespaces listing exactly when the CRD's scope is 'Namespaced'
\* and the cluster-wide listing otherwise; a CRD without scope is listed
\* cluster-wide and its payload has scope 'Cluster'.
C22_ListingByScope ==
  /\ \A c \in Callers : IsLoad(calls[c]) => ListingInOrder(calls[c])
  /\ (IsLoad(last) /\ last.api > 0) => ListingInOrder(last)
  /\ (IsLoad(last) /\ FromApi(last) /\ Has(last, "listCall") /\ last.fault = "none") =>
       last.ret.val.scope = RealScope(last.loc.crd)

\* a namespaced CRD was listed over all namespaces while a call for a CRD
\* without scope is about to store a 'Cluster' payload listed cluster-wide
C22_Witness ==
  /\ IsLoad(last) /\ FromApi(last) /\ last.fault = "none" /\ Has(last, "listCall")
  /\ last.loc.crd.scope = Str("Namespaced")
  /\ last.loc.listCall = "listCustomObjectForAllNamespaces"
  /\ \E c \in Callers :
       /\ IsLoad(calls[c]) /\ calls[c].pc = "setEx"
       /\ calls[c].loc.crd.scope = Undefined
       /\ calls[c].loc.listCall = "listClusterCustomObject"
       /\ calls[c].loc.data.scope = "Cluster"

\* the call missed the cache and completed while every cache operation of it
\* was answered
MissedAndCompleted(call) ==
  /\ IsLoad(call) \/ IsList(call)
  /\ FromApi(call) /\ call.fault = "none"

\* the JSON text of what a call returned
StringifyOf(call) ==
  IF IsList(call) THEN StringifyCrds(call.ret.val) ELSE StringifyReports(call.ret.val)

\* C23: after a listAllAquaSecurityCRDs or loadReports that missed the cache
\* and completed, whether its fetch succeeded or failed, the key of the call
\* holds the result it returned (so that the next call is a hit); the
\* simplified loadReports likewise leaves its result in the map.
C23_EntryOnEveryMiss ==
  /\ MissedAndCompleted(last) =>
       /\ redis[KeyOf(last)].present
       /\ redis[KeyOf(last)].text = StringifyOf(last)
  /\ (IsSimple(last) /\ FromApi(last)) =>
       (cache[last.p].present /\ cache[last.p].data = last.ret.val)

IsSigint(call) == call.op = "SIGINT"

\* a SIGINT listener waits for the reply to its QUIT
QuitPending == \E c \in Callers : IsSigint(calls[c]) /\ calls[c].pc = "quit"

\* the process was ended by a listener whose QUIT was fulfilled
ExitedAfterQuit == IsSigint(last) /\ last.ret.kind = "value"

\* C24: the process exits only once the connection was closed (by the
\* listener whose QUIT was fulfilled) or no QUIT is left unanswered; calls of
\* the services in flight do not hold the exit back; and after every SIGINT
\* the process eventually exits.
C24_QuitThenExit ==
  /\ [](process = "exited" => (ExitedAfterQuit \/ ~QuitPending))
  /\ [](QuitPending => <>(process = "exited"))

====
